---- MODULE Spec2Model ----
(***************************************************************************)
(* Peptide-match evaluation engine of pynovo/metrics/evaluate.py:          *)
(* split_peptide, aa_match_prefix, aa_match, aa_match_batch and            *)
(* aa_match_metrics.                                                       *)
(*                                                                         *)
(* Strings are sequences of one-character strings; a token is a string, a  *)
(* tokenized peptide a sequence of tokens.  Masses and thresholds are      *)
(* integers (one unit = one mass step); numpy arrays are sequences and the *)
(* code's 0-based index k is position k + 1.                               *)
(***************************************************************************)
EXTENDS Integers, Sequences, FiniteSets, TLC

VARIABLES
    call,                \* which function of the module is being called
    pc,                  \* position of the call: "start", "loop", "done", "raised"
    aa_dict,             \* token -> mass
    ptm_list,            \* sequence of tokens
    cum_mass_threshold,
    ind_mass_threshold,
    peptide1,            \* truth peptide (tokenized; the loop variable in the batch)
    peptide2,            \* predicted peptide
    peptide,             \* raw string handed to split_peptide
    n_pairs,             \* pairs drawn from zip(peptides1, peptides2) so far
    aa_matches_batch,    \* list of verdicts
    n_aa1, n_aa2, n_ptm_1, n_ptm_2,
    ret,                 \* value returned / error raised by the call
    walk,                \* locals of the running pass: i1, i2, cum_mass1,
                         \* cum_mass2 and the three arrays
    istop,               \* i_stop: first unmatched index after the prefix pass
    n_iter,              \* iterations of the running pass so far
    scores               \* confidence scores handed to aa_match_metrics

vars == <<call, pc, aa_dict, ptm_list, cum_mass_threshold, ind_mass_threshold,
          peptide1, peptide2, peptide, n_pairs, aa_matches_batch,
          n_aa1, n_aa2, n_ptm_1, n_ptm_2, ret, walk, istop, n_iter, scores>>

----------------------------------------------------------------------------
(* Bounds of the model *)

\* longest tokenized peptide / raw string
MaxLen == 4
\* most tokens of the two peptides of a directly aligned pair, taken together
MaxAa == 6
\* largest threshold
MaxTol == 2
\* most pairs a batch yields
MaxPairs == 2
\* most tokens of a whole batch, both sides taken together
MaxBatchAa == 4

----------------------------------------------------------------------------
(* Input domains *)

TokA == <<"A">>
TokM == <<"M">>
TokX == <<"X">>

\* tokens a tokenized peptide may hold; TokX is a key of no table, so its
\* mass is looked up as 0
Tokens == {TokA, TokM, TokX}

\* mass tables of the aligner and of the batch
Tables == { (TokA :> 1) @@ (TokM :> 2) }

\* PTM lists; the last one names a token that is no key of the table
PtmLists == { <<TokM>>, <<TokM, TokX>> }

Tolerances == 0..MaxTol

SeqsUpTo(S, n) == UNION { [1..k -> S] : k \in 0..n }

Peptides == SeqsUpTo(Tokens, MaxLen)

\* an element of peptides1 / peptides2 of at most n characters or tokens:
\* a str or a list of tokens
BatchInputs(n) ==
    LET m == IF n < MaxLen THEN n ELSE MaxLen
    IN  [str : {TRUE}, val : SeqsUpTo({"A", "X"}, m)]
            \cup [str : {FALSE}, val : SeqsUpTo(Tokens, m)]

\* keys of the tables handed to split_peptide alone: the strings of one or
\* two characters over A and M
SplitKeys == { <<"A">>, <<"M">>, <<"A", "A">>, <<"A", "M">>,
               <<"M", "A">>, <<"M", "M">> }

SplitTables == { [k \in K |-> 1] : K \in SUBSET SplitKeys }

SplitStrings == SeqsUpTo({"A", "M"}, MaxLen)

----------------------------------------------------------------------------
(* Helpers for numpy / Python built-ins *)

Abs(x) == IF x < 0 THEN -x ELSE x

Max(a, b) == IF a > b THEN a ELSE b

\* np.zeros(n, np.bool_)
Zeros(n) == [k \in 1..n |-> FALSE]

\* ndarray.all(): true of the empty array
All(arr) == \A k \in DOMAIN arr : arr[k]

\* ndarray.sum() of a boolean array
Sum(arr) == Cardinality({k \in DOMAIN arr : arr[k]})

\* x in list
In(x, list) == \E k \in DOMAIN list : list[k] = x

\* Get with the default mass 1
GetDefaultOne(d, tok) == IF tok \in DOMAIN d THEN d[tok] ELSE 1

\* aa_dict.get(tok, 0)
Get(d, tok) == IF tok \in DOMAIN d THEN d[tok] ELSE 0

\* mass_diff adding the two masses instead of subtracting them
mass_diffSum(mz1, mz2) == mz1 + mz2

\* spectrum_utils.utils.mass_diff(mz1, mz2, mode_is_da=True): mz1 - mz2
mass_diff(mz1, mz2) == mz1 - mz2

----------------------------------------------------------------------------
(* split_peptide *)

Raised(e) == [kind |-> "raised", error |-> e]

Value(v) == [kind |-> "value", value |-> v]

NoRet == [kind |-> "none"]

\* key k occurs in s at 0-based position pos
StartsWith(s, pos, k) ==
    /\ pos + Len(k) <= Len(s)
    /\ \A j \in 1..Len(k) : s[pos + j] = k[j]

\* MatchAt with the keys sorted by ascending length (reverse=True left out):
\* the shortest key occurring at pos is taken
MatchAtShortest(s, pos, keys) ==
    LET M == {k \in keys : Len(k) > 0 /\ StartsWith(s, pos, k)}
    IN  IF M = {} THEN <<>>
        ELSE CHOOSE k \in M : \A j \in M : Len(k) <= Len(j)

\* the alternation of the keys sorted by descending length: the regex takes
\* the first alternative that matches at pos, which is the longest key
\* occurring there (two keys of one length occurring at pos are the same key)
MatchAt(s, pos, keys) ==
    LET M == {k \in keys : Len(k) > 0 /\ StartsWith(s, pos, k)}
    IN  IF M = {} THEN <<>>
        ELSE CHOOSE k \in M : \A j \in M : Len(j) <= Len(k)

\* re.findall(regex_pattern, peptide) without the empty parts: scan from
\* pos; where no key matches the scan moves on by one character
RECURSIVE findall(_, _, _)
findall(s, pos, keys) ==
    IF pos >= Len(s) THEN <<>>
    ELSE LET k == MatchAt(s, pos, keys)
         IN  IF k = <<>> THEN findall(s, pos + 1, keys)
             ELSE <<k>> \o findall(s, pos + Len(k), keys)

\* ''.join(parts)
RECURSIVE Join(_)
Join(parts) == IF parts = <<>> THEN <<>> ELSE Head(parts) \o Join(Tail(parts))

split_peptide(pep, d) ==
    LET parts == findall(pep, 0, DOMAIN d)
    IN  IF Join(parts) # pep THEN Raised("ValueError") ELSE Value(parts)

----------------------------------------------------------------------------
(* aa_match_prefix *)

\* state of a walk: the two pointers (0-based, as in the code), the two
\* cumulative masses and the three arrays
WalkStart(p1, p2) ==
    [ i1 |-> 0, i2 |-> 0, cum_mass1 |-> 0, cum_mass2 |-> 0,
      aa_matches    |-> Zeros(Max(Len(p1), Len(p2))),
      ptm_matches_1 |-> Zeros(Max(Len(p1), Len(p2))),
      ptm_matches_2 |-> Zeros(Max(Len(p1), Len(p2))) ]

\* PrefixStep with one line changed, as named by which
\*   "indrev": the individual comparison is reversed (> for <)
\*   "cumrev": the cumulative comparison is reversed (> for <)
\*   "idx1"  : the position written is i1 instead of max(i1, i2)
\*   "resyncrev": the comparison of the elif branch is reversed (< for >)
\*   "stuck" : the elif branch adds the mass but leaves i1 where it is
PrefixStepWith(which, s, p1, p2, d, ptm, cum, ind) ==
    LET aa_mass1 == Get(d, p1[s.i1 + 1])
        aa_mass2 == Get(d, p2[s.i2 + 1])
        gap      == Abs(mass_diff(s.cum_mass1 + aa_mass1, s.cum_mass2 + aa_mass2))
    IN  IF (IF which = "cumrev" THEN gap > cum ELSE gap < cum)
        THEN LET idx == IF which = "idx1" THEN s.i1 ELSE Max(s.i1, s.i2)
                 one == Abs(mass_diff(aa_mass1, aa_mass2))
                 m   == IF which = "indrev" THEN one > ind ELSE one < ind
             IN  [ i1 |-> s.i1 + 1, i2 |-> s.i2 + 1,
                   cum_mass1 |-> s.cum_mass1 + aa_mass1,
                   cum_mass2 |-> s.cum_mass2 + aa_mass2,
                   aa_matches |-> [s.aa_matches EXCEPT ![idx + 1] = m],
                   ptm_matches_1 |->
                       IF m THEN [s.ptm_matches_1 EXCEPT ![idx + 1] = In(p1[s.i1 + 1], ptm)]
                            ELSE s.ptm_matches_1,
                   ptm_matches_2 |->
                       IF m THEN [s.ptm_matches_2 EXCEPT ![idx + 1] = In(p2[s.i2 + 1], ptm)]
                            ELSE s.ptm_matches_2 ]
        ELSE IF (IF which = "resyncrev"
                 THEN s.cum_mass2 + aa_mass2 < s.cum_mass1 + aa_mass1
                 ELSE s.cum_mass2 + aa_mass2 > s.cum_mass1 + aa_mass1)
        THEN [s EXCEPT !.i1 = IF which = "stuck" THEN s.i1 ELSE s.i1 + 1,
                       !.cum_mass1 = s.cum_mass1 + aa_mass1]
        ELSE [s EXCEPT !.i2 = s.i2 + 1, !.cum_mass2 = s.cum_mass2 + aa_mass2]

PrefixStepResyncReversed(s, p1, p2, d, ptm, cum, ind) ==
    PrefixStepWith("resyncrev", s, p1, p2, d, ptm, cum, ind)

PrefixStepStuck(s, p1, p2, d, ptm, cum, ind) ==
    PrefixStepWith("stuck", s, p1, p2, d, ptm, cum, ind)

PrefixStepIndReversed(s, p1, p2, d, ptm, cum, ind) ==
    PrefixStepWith("indrev", s, p1, p2, d, ptm, cum, ind)

PrefixStepCumReversed(s, p1, p2, d, ptm, cum, ind) ==
    PrefixStepWith("cumrev", s, p1, p2, d, ptm, cum, ind)

PrefixStepIdxI1(s, p1, p2, d, ptm, cum, ind) ==
    PrefixStepWith("idx1", s, p1, p2, d, ptm, cum, ind)

\* one iteration of the while loop of aa_match_prefix
PrefixStep(s, p1, p2, d, ptm, cum, ind) ==
    LET aa_mass1 == Get(d, p1[s.i1 + 1])
        aa_mass2 == Get(d, p2[s.i2 + 1])
    IN  IF Abs(mass_diff(s.cum_mass1 + aa_mass1, s.cum_mass2 + aa_mass2)) < cum
        THEN LET idx == Max(s.i1, s.i2)
                 m   == Abs(mass_diff(aa_mass1, aa_mass2)) < ind
             IN  [ i1 |-> s.i1 + 1, i2 |-> s.i2 + 1,
                   cum_mass1 |-> s.cum_mass1 + aa_mass1,
                   cum_mass2 |-> s.cum_mass2 + aa_mass2,
                   aa_matches |-> [s.aa_matches EXCEPT ![idx + 1] = m],
                   ptm_matches_1 |->
                       IF m THEN [s.ptm_matches_1 EXCEPT ![idx + 1] = In(p1[s.i1 + 1], ptm)]
                            ELSE s.ptm_matches_1,
                   ptm_matches_2 |->
                       IF m THEN [s.ptm_matches_2 EXCEPT ![idx + 1] = In(p2[s.i2 + 1], ptm)]
                            ELSE s.ptm_matches_2 ]
        ELSE IF s.cum_mass2 + aa_mass2 > s.cum_mass1 + aa_mass1
        THEN [s EXCEPT !.i1 = s.i1 + 1, !.cum_mass1 = s.cum_mass1 + aa_mass1]
        ELSE [s EXCEPT !.i2 = s.i2 + 1, !.cum_mass2 = s.cum_mass2 + aa_mass2]

RECURSIVE PrefixRun(_, _, _, _, _, _, _)
PrefixRun(s, p1, p2, d, ptm, cum, ind) ==
    IF s.i1 < Len(p1) /\ s.i2 < Len(p2)
    THEN PrefixRun(PrefixStep(s, p1, p2, d, ptm, cum, ind), p1, p2, d, ptm, cum, ind)
    ELSE s

\* the tuple a call returns, as a record
Verdict(aa, ptm1, ptm2, pep) ==
    [ aa_matches |-> aa, pep_match |-> pep,
      ptm_matches_1 |-> ptm1, ptm_matches_2 |-> ptm2 ]

aa_match_prefix(p1, p2, d, ptm, cum, ind) ==
    LET s == PrefixRun(WalkStart(p1, p2), p1, p2, d, ptm, cum, ind)
    IN  Verdict(s.aa_matches, s.ptm_matches_1, s.ptm_matches_2, All(s.aa_matches))

----------------------------------------------------------------------------
(* aa_match *)

\* np.argwhere(~aa_matches)[0]: the first 0-based index holding False
FirstFalse(arr) ==
    (CHOOSE k \in DOMAIN arr : ~arr[k] /\ \A j \in 1..(k - 1) : arr[j]) - 1

\* one iteration of the while loop of aa_match (the suffix pass)
SuffixStep(s, p1, p2, d, ptm, cum, ind) ==
    LET aa_mass1 == Get(d, p1[s.i1 + 1])
        aa_mass2 == Get(d, p2[s.i2 + 1])
    IN  IF Abs(mass_diff(s.cum_mass1 + aa_mass1, s.cum_mass2 + aa_mass2)) < cum
        THEN LET idx == Max(s.i1, s.i2)
                 m   == Abs(mass_diff(aa_mass1, aa_mass2)) < ind
             IN  [ i1 |-> s.i1 - 1, i2 |-> s.i2 - 1,
                   cum_mass1 |-> s.cum_mass1 + aa_mass1,
                   cum_mass2 |-> s.cum_mass2 + aa_mass2,
                   aa_matches |-> [s.aa_matches EXCEPT ![idx + 1] = m],
                   ptm_matches_1 |->
                       IF m THEN [s.ptm_matches_1 EXCEPT ![idx + 1] = In(p1[s.i1 + 1], ptm)]
                            ELSE s.ptm_matches_1,
                   ptm_matches_2 |->
                       IF m THEN [s.ptm_matches_2 EXCEPT ![idx + 1] = In(p2[s.i2 + 1], ptm)]
                            ELSE s.ptm_matches_2 ]
        ELSE IF s.cum_mass2 + aa_mass2 > s.cum_mass1 + aa_mass1
        THEN [s EXCEPT !.i1 = s.i1 - 1, !.cum_mass1 = s.cum_mass1 + aa_mass1]
        ELSE [s EXCEPT !.i2 = s.i2 - 1, !.cum_mass2 = s.cum_mass2 + aa_mass2]

RECURSIVE SuffixRun(_, _, _, _, _, _, _, _)
SuffixRun(s, i_stop, p1, p2, d, ptm, cum, ind) ==
    IF s.i1 >= i_stop /\ s.i2 >= i_stop
    THEN SuffixRun(SuffixStep(s, p1, p2, d, ptm, cum, ind), i_stop,
                   p1, p2, d, ptm, cum, ind)
    ELSE s

\* aa_match without the suffix pass: what the prefix pass found
aa_matchPrefixOnly(p1, p2, d, ptm, cum, ind) ==
    aa_match_prefix(p1, p2, d, ptm, cum, ind)

\* aa_match returning the prefix pass's pep_match after the suffix pass too
aa_matchStalePep(p1, p2, d, ptm, cum, ind) ==
    LET pre == aa_match_prefix(p1, p2, d, ptm, cum, ind)
    IN  IF pre.pep_match
        THEN pre
        ELSE LET i_stop == FirstFalse(pre.aa_matches)
                 s0 == [ i1 |-> Len(p1) - 1, i2 |-> Len(p2) - 1,
                         cum_mass1 |-> 0, cum_mass2 |-> 0,
                         aa_matches    |-> pre.aa_matches,
                         ptm_matches_1 |-> pre.ptm_matches_1,
                         ptm_matches_2 |-> pre.ptm_matches_2 ]
                 s  == SuffixRun(s0, i_stop, p1, p2, d, ptm, cum, ind)
             IN  Verdict(s.aa_matches, s.ptm_matches_1, s.ptm_matches_2,
                         pre.pep_match)

aa_match(p1, p2, d, ptm, cum, ind) ==
    LET pre == aa_match_prefix(p1, p2, d, ptm, cum, ind)
    IN  IF pre.pep_match
        THEN pre
        ELSE LET i_stop == FirstFalse(pre.aa_matches)
                 s0 == [ i1 |-> Len(p1) - 1, i2 |-> Len(p2) - 1,
                         cum_mass1 |-> 0, cum_mass2 |-> 0,
                         aa_matches    |-> pre.aa_matches,
                         ptm_matches_1 |-> pre.ptm_matches_1,
                         ptm_matches_2 |-> pre.ptm_matches_2 ]
                 s  == SuffixRun(s0, i_stop, p1, p2, d, ptm, cum, ind)
             IN  Verdict(s.aa_matches, s.ptm_matches_1, s.ptm_matches_2,
                         All(s.aa_matches))

----------------------------------------------------------------------------
(* aa_match_batch *)

\* sum(ptm_mask): the tokens of pep that are in ptm_list
PtmCount(pep, ptm) == Cardinality({k \in DOMAIN pep : In(pep[k], ptm)})

\* lines 217-220: a str is split, a list is taken as it is
Tokenized(x, d) == IF x.str THEN split_peptide(x.val, d) ELSE Value(x.val)

\* PairVerdict with the all-false verdict sized by the prediction
PairVerdictLen2(p1, p2, d, ptm, cum, ind) ==
    IF Len(p2) = 0
    THEN Verdict(Zeros(Len(p2)), Zeros(Len(p2)), Zeros(Len(p2)), FALSE)
    ELSE aa_match(p1, p2, d, ptm, cum, ind)

\* the verdict appended for one tokenized pair
PairVerdict(p1, p2, d, ptm, cum, ind) ==
    IF Len(p2) = 0
    THEN Verdict(Zeros(Len(p1)), Zeros(Len(p1)), Zeros(Len(p1)), FALSE)
    ELSE aa_match(p1, p2, d, ptm, cum, ind)

----------------------------------------------------------------------------
(* State machine: one call of split_peptide, aa_match or aa_match_batch *)

NoBatch ==
    /\ n_pairs = 0
    /\ aa_matches_batch = <<>>
    /\ n_aa1 = 0 /\ n_aa2 = 0 /\ n_ptm_1 = 0 /\ n_ptm_2 = 0

\* no pass of the aligner has started
NoWalk ==
    /\ walk = WalkStart(<<>>, <<>>)
    /\ istop = 0
    /\ n_iter = 0

InitSplit ==
    /\ call = "split_peptide"
    /\ pc = "start"
    /\ aa_dict \in SplitTables
    /\ peptide \in SplitStrings
    /\ ptm_list = <<>>
    /\ cum_mass_threshold = 0 /\ ind_mass_threshold = 0
    /\ peptide1 = <<>> /\ peptide2 = <<>>
    /\ NoBatch
    /\ NoWalk
    /\ scores = <<>>
    /\ ret = NoRet

InitMatch ==
    /\ call = "aa_match"
    /\ pc = "start"
    /\ aa_dict \in Tables
    /\ ptm_list \in PtmLists
    /\ cum_mass_threshold \in Tolerances
    /\ ind_mass_threshold \in Tolerances
    /\ peptide1 \in Peptides
    /\ peptide2 \in Peptides
    /\ Len(peptide1) + Len(peptide2) <= MaxAa
    /\ peptide = <<>>
    /\ NoBatch
    /\ NoWalk
    /\ scores = <<>>
    /\ ret = NoRet

InitPrefix ==
    /\ call = "aa_match_prefix"
    /\ pc = "start"
    /\ aa_dict \in Tables
    /\ ptm_list \in PtmLists
    /\ cum_mass_threshold \in Tolerances
    /\ ind_mass_threshold \in Tolerances
    /\ peptide1 \in Peptides
    /\ peptide2 \in Peptides
    /\ Len(peptide1) + Len(peptide2) <= MaxAa
    /\ peptide = <<>>
    /\ NoBatch
    /\ NoWalk
    /\ scores = <<>>
    /\ ret = NoRet

InitBatch ==
    /\ call = "aa_match_batch"
    /\ pc = "start"
    /\ aa_dict \in Tables
    /\ ptm_list \in PtmLists
    /\ cum_mass_threshold \in Tolerances
    /\ ind_mass_threshold \in Tolerances
    /\ peptide1 = <<>> /\ peptide2 = <<>>
    /\ peptide = <<>>
    /\ NoBatch
    /\ NoWalk
    /\ scores = <<>>
    /\ ret = NoRet

\* split_peptide(peptide, aa_dict)
Split ==
    /\ call = "split_peptide"
    /\ pc = "start"
    /\ ret' = split_peptide(peptide, aa_dict)
    /\ pc' = IF ret'.kind = "raised" THEN "raised" ELSE "done"
    /\ UNCHANGED <<call, aa_dict, ptm_list, cum_mass_threshold, ind_mass_threshold,
                   peptide1, peptide2, peptide, n_pairs, aa_matches_batch,
                   n_aa1, n_aa2, n_ptm_1, n_ptm_2, walk, istop, n_iter, scores>>

\* aa_match(peptide1, peptide2, aa_dict, ptm_list, cum, ind)
Match ==
    /\ call = "aa_match"
    /\ pc = "start"
    /\ pc' = "done"
    /\ ret' = Value(aa_match(peptide1, peptide2, aa_dict, ptm_list,
                             cum_mass_threshold, ind_mass_threshold))
    /\ UNCHANGED <<call, aa_dict, ptm_list, cum_mass_threshold, ind_mass_threshold,
                   peptide1, peptide2, peptide, n_pairs, aa_matches_batch,
                   n_aa1, n_aa2, n_ptm_1, n_ptm_2, walk, istop, n_iter, scores>>

\* aa_match_prefix(peptide1, peptide2, aa_dict, ptm_list, cum, ind)
MatchPrefix ==
    /\ call = "aa_match_prefix"
    /\ pc = "start"
    /\ pc' = "done"
    /\ ret' = Value(aa_match_prefix(peptide1, peptide2, aa_dict, ptm_list,
                                    cum_mass_threshold, ind_mass_threshold))
    /\ UNCHANGED <<call, aa_dict, ptm_list, cum_mass_threshold, ind_mass_threshold,
                   peptide1, peptide2, peptide, n_pairs, aa_matches_batch,
                   n_aa1, n_aa2, n_ptm_1, n_ptm_2, walk, istop, n_iter, scores>>

\* BatchCheck without the check of the PTM list
BatchCheckSkipped ==
    /\ call = "aa_match_batch"
    /\ pc = "start"
    /\ pc' = "loop" /\ ret' = ret
    /\ UNCHANGED <<call, aa_dict, ptm_list, cum_mass_threshold, ind_mass_threshold,
                   peptide1, peptide2, peptide, n_pairs, aa_matches_batch,
                   n_aa1, n_aa2, n_ptm_1, n_ptm_2, walk, istop, n_iter, scores>>

\* aa_match_batch, lines 208-213: the tallies are zeroed (NoBatch) and the
\* PTM list is checked against the keys of the table
BatchCheck ==
    /\ call = "aa_match_batch"
    /\ pc = "start"
    /\ IF \E k \in DOMAIN ptm_list : ptm_list[k] \notin DOMAIN aa_dict
       THEN pc' = "raised" /\ ret' = Raised("ValueError")
       ELSE pc' = "loop" /\ ret' = ret
    /\ UNCHANGED <<call, aa_dict, ptm_list, cum_mass_threshold, ind_mass_threshold,
                   peptide1, peptide2, peptide, n_pairs, aa_matches_batch,
                   n_aa1, n_aa2, n_ptm_1, n_ptm_2, walk, istop, n_iter, scores>>

\* BatchPair putting the new verdict in front of the list
BatchPairPrepend(x1, x2) ==
    /\ call = "aa_match_batch"
    /\ pc = "loop"
    /\ n_pairs < MaxPairs
    /\ n_pairs' = n_pairs + 1
    /\ LET t1 == Tokenized(x1, aa_dict)
           t2 == Tokenized(x2, aa_dict)
       IN  IF t1.kind = "raised"
           THEN /\ pc' = "raised" /\ ret' = t1
                /\ UNCHANGED <<peptide1, peptide2, aa_matches_batch,
                               n_aa1, n_aa2, n_ptm_1, n_ptm_2, walk, istop, n_iter, scores>>
           ELSE IF t2.kind = "raised"
           THEN /\ pc' = "raised" /\ ret' = t2
                /\ peptide1' = t1.value
                /\ UNCHANGED <<peptide2, aa_matches_batch,
                               n_aa1, n_aa2, n_ptm_1, n_ptm_2, walk, istop, n_iter, scores>>
           ELSE /\ pc' = "loop" /\ ret' = ret
                /\ peptide1' = t1.value
                /\ peptide2' = t2.value
                /\ n_aa1' = n_aa1 + Len(t1.value)
                /\ n_aa2' = n_aa2 + Len(t2.value)
                /\ n_ptm_1' = n_ptm_1 + PtmCount(t1.value, ptm_list)
                /\ n_ptm_2' = n_ptm_2 + PtmCount(t2.value, ptm_list)
                /\ aa_matches_batch' =
                       <<PairVerdict(t1.value, t2.value, aa_dict, ptm_list,
                                     cum_mass_threshold, ind_mass_threshold)>>
                           \o aa_matches_batch
    /\ UNCHANGED <<call, aa_dict, ptm_list, cum_mass_threshold, ind_mass_threshold,
                   peptide, walk, istop, n_iter, scores>>

\* aa_match_batch, lines 215-242: one iteration of the loop over
\* zip(peptides1, peptides2), on the pair (x1, x2) the zip yields
BatchPair(x1, x2) ==
    /\ call = "aa_match_batch"
    /\ pc = "loop"
    /\ n_pairs < MaxPairs
    /\ n_pairs' = n_pairs + 1
    /\ LET t1 == Tokenized(x1, aa_dict)
           t2 == Tokenized(x2, aa_dict)
       IN  IF t1.kind = "raised"
           THEN /\ pc' = "raised" /\ ret' = t1
                /\ UNCHANGED <<peptide1, peptide2, aa_matches_batch,
                               n_aa1, n_aa2, n_ptm_1, n_ptm_2, walk, istop, n_iter, scores>>
           ELSE IF t2.kind = "raised"
           THEN /\ pc' = "raised" /\ ret' = t2
                /\ peptide1' = t1.value
                /\ UNCHANGED <<peptide2, aa_matches_batch,
                               n_aa1, n_aa2, n_ptm_1, n_ptm_2, walk, istop, n_iter, scores>>
           ELSE /\ pc' = "loop" /\ ret' = ret
                /\ peptide1' = t1.value
                /\ peptide2' = t2.value
                /\ n_aa1' = n_aa1 + Len(t1.value)
                /\ n_aa2' = n_aa2 + Len(t2.value)
                /\ n_ptm_1' = n_ptm_1 + PtmCount(t1.value, ptm_list)
                /\ n_ptm_2' = n_ptm_2 + PtmCount(t2.value, ptm_list)
                /\ aa_matches_batch' =
                       Append(aa_matches_batch,
                              PairVerdict(t1.value, t2.value, aa_dict, ptm_list,
                                          cum_mass_threshold, ind_mass_threshold))
    /\ UNCHANGED <<call, aa_dict, ptm_list, cum_mass_threshold, ind_mass_threshold,
                   peptide, walk, istop, n_iter, scores>>

\* aa_match_batch, line 243: the zip is exhausted
BatchReturn ==
    /\ call = "aa_match_batch"
    /\ pc = "loop"
    /\ pc' = "done"
    /\ ret' = Value(<<aa_matches_batch, n_aa1, n_aa2, n_ptm_1, n_ptm_2>>)
    /\ UNCHANGED <<call, aa_dict, ptm_list, cum_mass_threshold, ind_mass_threshold,
                   peptide1, peptide2, peptide, n_pairs, aa_matches_batch,
                   n_aa1, n_aa2, n_ptm_1, n_ptm_2, walk, istop, n_iter, scores>>

\* characters and tokens the batch may still be handed
BatchRoom == MaxBatchAa - (n_aa1 + n_aa2)

NextSplit == Split

NextMatch == Match

NextPrefix == MatchPrefix

Next ==
    \/ BatchCheck
    \/ /\ pc = "loop"
       /\ n_pairs < MaxPairs
       /\ \E x1 \in BatchInputs(BatchRoom) :
              \E x2 \in BatchInputs(BatchRoom - Len(x1.val)) : BatchPair(x1, x2)
    \/ BatchReturn

SpecSplit == InitSplit /\ [][NextSplit]_vars

SpecMatch == InitMatch /\ [][NextMatch]_vars

\* direct calls of aa_match_prefix and of aa_match on the same inputs
SpecAlign == (InitMatch \/ InitPrefix) /\ [][NextMatch \/ NextPrefix]_vars

Init == InitBatch

Spec == Init /\ [][Next]_vars

\* most tokens of the two peptides of a directly aligned pair whose tokens
\* are all keys of the table
MaxKnownAa == 7

\* aa_match on peptides whose tokens are all keys of the mass table
InitMatchKnown ==
    /\ call = "aa_match"
    /\ pc = "start"
    /\ aa_dict \in Tables
    /\ ptm_list \in PtmLists
    /\ cum_mass_threshold \in Tolerances
    /\ ind_mass_threshold \in Tolerances
    /\ peptide1 \in SeqsUpTo({TokA, TokM}, MaxLen)
    /\ peptide2 \in SeqsUpTo({TokA, TokM}, MaxLen)
    /\ Len(peptide1) + Len(peptide2) <= MaxKnownAa
    /\ peptide = <<>>
    /\ NoBatch
    /\ NoWalk
    /\ scores = <<>>
    /\ ret = NoRet

SpecMatchKnown == InitMatchKnown /\ [][NextMatch]_vars

\* a direct call of aa_match or a call of aa_match_batch
SpecApi == (InitMatch \/ InitBatch) /\ [][NextMatch \/ Next]_vars

----------------------------------------------------------------------------
(* State machine: one call of aa_match, one loop iteration at a time *)

\* most tokens of the two peptides of a pair aligned step by step
MaxWalkAa == 5
\* cap of the iteration counter of a pass; the passes of the code stay below
MaxIter == 9

\* condition of the while loop of aa_match_prefix (line 63)
PrefixCond(s, p1, p2) == s.i1 < Len(p1) /\ s.i2 < Len(p2)

\* SuffixCond running down to index 0 instead of i_stop
SuffixCondNoStop(s, stop) == s.i1 >= 0 /\ s.i2 >= 0

\* condition of the while loop of aa_match (line 134)
SuffixCond(s, stop) == s.i1 >= stop /\ s.i2 >= stop

InitWalk ==
    /\ InitMatch
    /\ Len(peptide1) + Len(peptide2) <= MaxWalkAa

\* aa_match calls aa_match_prefix, lines 58-62: arrays zeroed, pointers and
\* cumulative masses at 0
WalkEnter ==
    /\ call = "aa_match"
    /\ pc = "start"
    /\ pc' = "prefix"
    /\ walk' = WalkStart(peptide1, peptide2)
    /\ n_iter' = 0
    /\ UNCHANGED <<call, aa_dict, ptm_list, cum_mass_threshold, ind_mass_threshold,
                   peptide1, peptide2, peptide, n_pairs, aa_matches_batch,
                   n_aa1, n_aa2, n_ptm_1, n_ptm_2, ret, istop, scores>>

\* one iteration of the loop of lines 63-82
PrefixIter ==
    /\ call = "aa_match"
    /\ pc = "prefix"
    /\ PrefixCond(walk, peptide1, peptide2)
    /\ n_iter < MaxIter
    /\ walk' = PrefixStep(walk, peptide1, peptide2, aa_dict, ptm_list,
                          cum_mass_threshold, ind_mass_threshold)
    /\ n_iter' = n_iter + 1
    /\ UNCHANGED <<call, pc, aa_dict, ptm_list, cum_mass_threshold,
                   ind_mass_threshold, peptide1, peptide2, peptide, n_pairs,
                   aa_matches_batch, n_aa1, n_aa2, n_ptm_1, n_ptm_2, ret,
                   istop, scores>>

\* the loop of the prefix pass is left: line 83 returns to aa_match, which
\* returns at lines 128-129 on a full match and else sets up the suffix pass
\* at lines 131-133
PrefixExit ==
    /\ call = "aa_match"
    /\ pc = "prefix"
    /\ ~PrefixCond(walk, peptide1, peptide2)
    /\ IF All(walk.aa_matches)
       THEN /\ pc' = "done"
            /\ ret' = Value(Verdict(walk.aa_matches, walk.ptm_matches_1,
                                    walk.ptm_matches_2, All(walk.aa_matches)))
            /\ UNCHANGED <<walk, istop, n_iter>>
       ELSE /\ pc' = "suffix"
            /\ istop' = FirstFalse(walk.aa_matches)
            /\ walk' = [walk EXCEPT !.i1 = Len(peptide1) - 1,
                                    !.i2 = Len(peptide2) - 1,
                                    !.cum_mass1 = 0, !.cum_mass2 = 0]
            /\ n_iter' = 0
            /\ ret' = ret
    /\ UNCHANGED <<call, aa_dict, ptm_list, cum_mass_threshold, ind_mass_threshold,
                   peptide1, peptide2, peptide, n_pairs, aa_matches_batch,
                   n_aa1, n_aa2, n_ptm_1, n_ptm_2, scores>>

\* one iteration of the loop of lines 134-153
SuffixIter ==
    /\ call = "aa_match"
    /\ pc = "suffix"
    /\ SuffixCond(walk, istop)
    /\ n_iter < MaxIter
    /\ walk' = SuffixStep(walk, peptide1, peptide2, aa_dict, ptm_list,
                          cum_mass_threshold, ind_mass_threshold)
    /\ n_iter' = n_iter + 1
    /\ UNCHANGED <<call, pc, aa_dict, ptm_list, cum_mass_threshold,
                   ind_mass_threshold, peptide1, peptide2, peptide, n_pairs,
                   aa_matches_batch, n_aa1, n_aa2, n_ptm_1, n_ptm_2, ret,
                   istop, scores>>

\* the loop of the suffix pass is left: line 156
SuffixExit ==
    /\ call = "aa_match"
    /\ pc = "suffix"
    /\ ~SuffixCond(walk, istop)
    /\ pc' = "done"
    /\ ret' = Value(Verdict(walk.aa_matches, walk.ptm_matches_1,
                            walk.ptm_matches_2, All(walk.aa_matches)))
    /\ UNCHANGED <<call, aa_dict, ptm_list, cum_mass_threshold, ind_mass_threshold,
                   peptide1, peptide2, peptide, n_pairs, aa_matches_batch,
                   n_aa1, n_aa2, n_ptm_1, n_ptm_2, walk, istop, n_iter, scores>>

NextWalk ==
    \/ WalkEnter
    \/ PrefixIter
    \/ PrefixExit
    \/ SuffixIter
    \/ SuffixExit

SpecWalk == InitWalk /\ [][NextWalk]_vars

\* the interpreter keeps running the call until it returns
SpecWalkFair == SpecWalk /\ WF_vars(NextWalk)

----------------------------------------------------------------------------
(* aa_match_metrics *)

RECURSIVE SumSeq(_)
SumSeq(q) == IF q = <<>> THEN 0 ELSE Head(q) + SumSeq(Tail(q))

\* lines 298-300: sum of aa_matches[0].sum() over the batch
n_aa_correct(batch) == SumSeq([j \in DOMAIN batch |-> Sum(batch[j].aa_matches)])

\* line 307: sum of aa_matches[2].sum() over the batch
n_ptm_correct_1(batch) == SumSeq([j \in DOMAIN batch |-> Sum(batch[j].ptm_matches_1)])

\* line 308: sum of aa_matches[3].sum() over the batch
n_ptm_correct_2(batch) == SumSeq([j \in DOMAIN batch |-> Sum(batch[j].ptm_matches_2)])

\* longest verdict list and longest scores list handed to aa_match_metrics
MaxScores == 3
\* largest confidence score
MaxScore == 2

\* verdicts a tally handed to aa_match_metrics may hold
MetricVerdicts ==
    { Verdict(<<TRUE>>, <<TRUE>>, <<TRUE>>, TRUE),
      Verdict(<<TRUE, FALSE>>, <<FALSE, FALSE>>, <<FALSE, FALSE>>, FALSE) }

\* totals a tally handed to aa_match_metrics may hold
MetricTotals == {0, 2}

Min(a, b) == IF a < b THEN a ELSE b

\* num / (den + 1e-8), kept as the pair of its integers
Ratio(num, den) == <<num, den>>

\* num / den of a numpy division, kept as the pair of its integers
Quotient(num, den) == <<num, den>>

\* line 315
pep_match_bool_list(batch) == [j \in DOMAIN batch |-> batch[j].pep_match]

\* list(zip(a, b)): as long as the shorter list
zip(a, b) == [j \in 1..Min(Len(a), Len(b)) |-> <<a[j], b[j]>>]

\* sorted_combined that leaves the pairs in the order given
sorted_combinedUnsorted(combined) == combined

\* sorted(combined, key=lambda x: x[0], reverse=True): the sort is stable, so
\* pair j comes before pair k iff its score is larger, or the scores are
\* equal and j is before k in combined
sorted_combined(combined) ==
    LET n == Len(combined)
        Before(j, k) == \/ combined[j][1] > combined[k][1]
                        \/ combined[j][1] = combined[k][1] /\ j < k
        rank(j) == Cardinality({k \in 1..n : Before(k, j)}) + 1
    IN  [r \in 1..n |-> combined[CHOOSE j \in 1..n : rank(j) = r]]

\* line 319
sorted_pred_bools(combined) ==
    LET sc == sorted_combined(combined)
    IN  [r \in DOMAIN sc |-> sc[r][2]]

\* np.cumsum of a boolean list
cumsum(bools) == [r \in DOMAIN bools |-> Cardinality({k \in 1..r : bools[k]})]

\* line 321
precision(bools) == [r \in DOMAIN bools |-> Quotient(cumsum(bools)[r], r)]

\* line 322
recall(bools) == [r \in DOMAIN bools |-> Quotient(cumsum(bools)[r], Len(bools))]

RECURSIVE Fact(_)
Fact(n) == IF n <= 1 THEN 1 ELSE n * Fact(n - 1)

\* sklearn.metrics.auc(x, y) for n >= 2 points with x ascending: the
\* trapezoid sum of (x[k+1] - x[k]) * (y[k] + y[k+1]) / 2, taken over the
\* common denominator 2 * n * n! (x holds quotients over n, y[k] a quotient
\* over k)
auc(x, y) ==
    LET n == Len(x)
        term(k) == (x[k + 1][1] - x[k][1])
                       * (y[k][1] * (Fact(n) \div y[k][2])
                          + y[k + 1][1] * (Fact(n) \div y[k + 1][2]))
    IN  Quotient(SumSeq([k \in 1..(n - 1) |-> term(k)]), 2 * n * Fact(n))

\* lines 298-333 with the ranking built from the pairs given
metrics_dict(batch, n_aa_true, n_aa_pred, n_ptm_true, n_ptm_pred, combined) ==
    LET bools == sorted_pred_bools(combined)
    IN  IF Len(bools) < 2
        THEN Raised("ValueError")
        ELSE Value([ aa_precision  |-> Ratio(n_aa_correct(batch), n_aa_pred),
                     aa_recall     |-> Ratio(n_aa_correct(batch), n_aa_true),
                     pep_precision |-> Ratio(Sum(pep_match_bool_list(batch)),
                                             Len(batch)),
                     ptm_recall    |-> Ratio(n_ptm_correct_1(batch), n_ptm_true),
                     ptm_precision |-> Ratio(n_ptm_correct_2(batch), n_ptm_pred),
                     curve_auc     |-> auc(recall(bools), precision(bools)) ])

\* aa_match_metrics without the assert of line 316
aa_match_metricsNoAssert(batch, n_aa_true, n_aa_pred, n_ptm_true, n_ptm_pred, sc) ==
    metrics_dict(batch, n_aa_true, n_aa_pred, n_ptm_true, n_ptm_pred,
                 zip(sc, pep_match_bool_list(batch)))

\* aa_match_metrics: the assert of line 316 fails on lists of different
\* lengths; auc raises ValueError on fewer than 2 points
aa_match_metrics(batch, n_aa_true, n_aa_pred, n_ptm_true, n_ptm_pred, sc) ==
    IF Len(sc) # Len(pep_match_bool_list(batch))
    THEN Raised("AssertionError")
    ELSE metrics_dict(batch, n_aa_true, n_aa_pred, n_ptm_true, n_ptm_pred,
                      zip(sc, pep_match_bool_list(batch)))

InitMetrics ==
    /\ call = "aa_match_metrics"
    /\ pc = "start"
    /\ aa_dict \in Tables
    /\ ptm_list = <<>>
    /\ cum_mass_threshold = 0 /\ ind_mass_threshold = 0
    /\ peptide1 = <<>> /\ peptide2 = <<>>
    /\ peptide = <<>>
    /\ n_pairs = 0
    /\ aa_matches_batch \in SeqsUpTo(MetricVerdicts, MaxScores)
    /\ n_aa1 \in MetricTotals /\ n_aa2 = n_aa1
    /\ n_ptm_1 = 0 /\ n_ptm_2 = 0
    /\ NoWalk
    /\ scores \in SeqsUpTo(0..MaxScore, MaxScores)
    /\ ret = NoRet

\* aa_match_metrics(aa_matches_batch, n_aa1, n_aa2, n_ptm_1, n_ptm_2, scores)
Metrics ==
    /\ call = "aa_match_metrics"
    /\ pc = "start"
    /\ ret' = aa_match_metrics(aa_matches_batch, n_aa1, n_aa2, n_ptm_1, n_ptm_2,
                               scores)
    /\ pc' = IF ret'.kind = "raised" THEN "raised" ELSE "done"
    /\ UNCHANGED <<call, aa_dict, ptm_list, cum_mass_threshold, ind_mass_threshold,
                   peptide1, peptide2, peptide, n_pairs, aa_matches_batch,
                   n_aa1, n_aa2, n_ptm_1, n_ptm_2, walk, istop, n_iter, scores>>

NextMetrics == Metrics

SpecMetrics == InitMetrics /\ [][NextMetrics]_vars

----------------------------------------------------------------------------
(* Properties *)

\* the call of aa_match in the current state has returned
Matched == call = "aa_match" /\ pc = "done"

\* aa_match on the current inputs with other thresholds
MatchWith(cum, ind) == aa_match(peptide1, peptide2, aa_dict, ptm_list, cum, ind)

PrefixWith(cum, ind) ==
    aa_match_prefix(peptide1, peptide2, aa_dict, ptm_list, cum, ind)

AllFalseVerdict(n) == Verdict(Zeros(n), Zeros(n), Zeros(n), FALSE)

\* C1 as stated: aligning a non-empty peptide against itself gives an
\* all-true match array and whole-match = true for all thresholds >= 0,
\* the value 0 included.
C1_IdentityAnyTol ==
    (Matched /\ peptide1 = peptide2 /\ peptide1 # <<>>)
        => (All(ret.value.aa_matches) /\ ret.value.pep_match)

\* C1 amended: aligning a non-empty peptide against itself gives an all-true
\* match array and whole-match = true whenever both thresholds are > 0 (the
\* comparisons are strict, so a threshold of 0 matches nothing).
C1_IdentityPositiveTol ==
    (Matched /\ peptide1 = peptide2 /\ peptide1 # <<>>
        /\ cum_mass_threshold > 0 /\ ind_mass_threshold > 0)
        => (All(ret.value.aa_matches) /\ ret.value.pep_match)

C1_Witness ==
    /\ Matched /\ peptide1 = peptide2 /\ Len(peptide1) = 3
    /\ TokX \in {peptide1[k] : k \in DOMAIN peptide1}
    /\ cum_mass_threshold > 0 /\ ind_mass_threshold > 0
    /\ ret.value.pep_match

\* C2: in every batch with at least one token on each side, the true
\* amino-acid match flags summed over the verdicts number at most the
\* predicted amino acids and at most the truth amino acids (so aa_precision
\* and aa_recall lie in [0, 1]).
C2_AaMetricBounds ==
    (call = "aa_match_batch" /\ pc = "done" /\ n_aa1 > 0 /\ n_aa2 > 0)
        => /\ n_aa_correct(ret.value[1]) <= ret.value[3]
           /\ n_aa_correct(ret.value[1]) <= ret.value[2]

\* C3: in every batch the true truth-side PTM flags number at most the PTM
\* tokens of the truth peptides and the true prediction-side PTM flags at
\* most the PTM tokens of the predicted peptides (so ptm_recall and
\* ptm_precision lie in [0, 1]).
C3_PtmMetricBounds ==
    (call = "aa_match_batch" /\ pc = "done")
        => /\ n_ptm_correct_1(ret.value[1]) <= ret.value[4]
           /\ n_ptm_correct_2(ret.value[1]) <= ret.value[5]

\* C4 as stated: with cumTol fixed, a larger indTol never gives aa_match a
\* final match array with fewer true entries.
C4_IndTolMonotone ==
    Matched =>
        \A t \in Tolerances :
            t >= ind_mass_threshold
                => Sum(MatchWith(cum_mass_threshold, t).aa_matches)
                       >= Sum(ret.value.aa_matches)

\* C4 amended: with cumTol fixed, every entry of the array returned by the
\* forward pass aa_match_prefix that is true under indTol1 is true under any
\* indTol2 >= indTol1, so the forward pass never has fewer true entries (the
\* final array of aa_match, after the suffix pass, can have fewer).
C4_PrefixIndTolMonotone ==
    (call = "aa_match_prefix" /\ pc = "done") =>
        \A t \in Tolerances :
            t >= ind_mass_threshold
                => \A k \in DOMAIN ret.value.aa_matches :
                       ret.value.aa_matches[k]
                           => PrefixWith(cum_mass_threshold, t).aa_matches[k]

C4_Witness ==
    /\ call = "aa_match_prefix" /\ pc = "done"
    /\ ind_mass_threshold < MaxTol
    /\ Sum(ret.value.aa_matches) >= 1
    /\ Sum(PrefixWith(cum_mass_threshold, MaxTol).aa_matches)
           > Sum(ret.value.aa_matches)

C6_SwapSymmetry ==
    Matched =>
        LET w == aa_match(peptide2, peptide1, aa_dict, ptm_list,
                          cum_mass_threshold, ind_mass_threshold)
        IN  /\ w.aa_matches = ret.value.aa_matches
            /\ w.pep_match = ret.value.pep_match
            /\ w.ptm_matches_1 = ret.value.ptm_matches_2
            /\ w.ptm_matches_2 = ret.value.ptm_matches_1

C6_Witness ==
    /\ Matched
    /\ Len(peptide1) < Len(peptide2)
    /\ Sum(ret.value.aa_matches) >= 2
    /\ ~ret.value.pep_match
    /\ ret.value.ptm_matches_1 # ret.value.ptm_matches_2

\* s is a concatenation of keys
RECURSIVE Decomposable(_, _)
Decomposable(s, keys) ==
    \/ s = <<>>
    \/ \E k \in keys :
           /\ Len(k) > 0
           /\ StartsWith(s, 0, k)
           /\ Decomposable(SubSeq(s, Len(k) + 1, Len(s)), keys)

ProperPrefix(k, k2) == Len(k) < Len(k2) /\ StartsWith(k2, 0, k)

\* whenever a key is a proper prefix of another key, the character of the
\* longer key right after it begins no key
PrefixSafe(keys) ==
    \A k \in keys, k2 \in keys :
        ProperPrefix(k, k2) => \A k3 \in keys : k3[1] # k2[Len(k) + 1]

\* C7 as stated: for every table and every string that is a concatenation
\* of keys of the table, split_peptide returns tokens whose concatenation is
\* the string.
C7_RoundTripAnyTable ==
    (call = "split_peptide" /\ pc # "start"
        /\ Decomposable(peptide, DOMAIN aa_dict))
        => (ret.kind = "value" /\ Join(ret.value) = peptide)

\* C7 amended: for every table in which, whenever a key is a proper prefix
\* of another key, the character of the longer key that follows it begins no
\* key (tables with no key a proper prefix of another among them), and every
\* string that is a concatenation of keys of the table, split_peptide
\* returns tokens whose concatenation is the string.
C7_RoundTripPrefixSafe ==
    (call = "split_peptide" /\ pc # "start"
        /\ PrefixSafe(DOMAIN aa_dict)
        /\ Decomposable(peptide, DOMAIN aa_dict))
        => (ret.kind = "value" /\ Join(ret.value) = peptide)

C7_Witness ==
    /\ call = "split_peptide" /\ pc = "done"
    /\ PrefixSafe(DOMAIN aa_dict)
    /\ \E k \in DOMAIN aa_dict, k2 \in DOMAIN aa_dict : ProperPrefix(k, k2)
    /\ Len(peptide) >= 3
    /\ \E i \in DOMAIN ret.value, j \in DOMAIN ret.value :
           Len(ret.value[i]) = 1 /\ Len(ret.value[j]) = 2

\* the verdict the batch appended last belongs to the pair held by the loop
\* variables peptide1, peptide2
PairRecorded ==
    /\ call = "aa_match_batch" /\ pc \in {"loop", "done"}
    /\ aa_matches_batch # <<>>

LastVerdict == aa_matches_batch[Len(aa_matches_batch)]

\* C8: a non-empty truth paired with an empty prediction gets a verdict whose
\* three arrays are all false with the truth's length and whose whole-match
\* flag is false, both as recorded by aa_match_batch and as returned by a
\* direct call of aa_match.
C8_EmptyPrediction ==
    /\ (Matched /\ peptide1 # <<>> /\ peptide2 = <<>>)
           => ret.value = AllFalseVerdict(Len(peptide1))
    /\ (PairRecorded /\ peptide1 # <<>> /\ peptide2 = <<>>)
           => /\ LastVerdict = AllFalseVerdict(Len(peptide1))
              /\ LastVerdict = aa_match(peptide1, peptide2, aa_dict, ptm_list,
                                        cum_mass_threshold, ind_mass_threshold)

C8_Witness ==
    /\ PairRecorded /\ Len(aa_matches_batch) = 2
    /\ Len(peptide1) = 2 /\ peptide2 = <<>>
    /\ cum_mass_threshold > 0 /\ ind_mass_threshold > 0
    /\ LastVerdict.aa_matches = Zeros(2)

\* C9 as stated: in every verdict returned by aa_match and every verdict
\* stored by aa_match_batch, also for an empty prediction whatever the truth
\* length, the whole-match flag is true iff every entry of the match array
\* is true.
C9_WholeMatchIffAll ==
    /\ Matched => (ret.value.pep_match <=> All(ret.value.aa_matches))
    /\ call = "aa_match_batch"
           => \A j \in DOMAIN aa_matches_batch :
                  aa_matches_batch[j].pep_match
                      <=> All(aa_matches_batch[j].aa_matches)

\* C9 amended: in every verdict returned by aa_match the whole-match flag is
\* true iff every entry of the final match array is true; in every verdict
\* stored by aa_match_batch it is true iff the array is non-empty and every
\* entry is true (the verdict recorded for an empty prediction paired with
\* an empty truth has an empty array and a false flag).
C9_WholeMatchIffAllNonEmpty ==
    /\ Matched => (ret.value.pep_match <=> All(ret.value.aa_matches))
    /\ call = "aa_match_batch"
           => \A j \in DOMAIN aa_matches_batch :
                  aa_matches_batch[j].pep_match
                      <=> (/\ aa_matches_batch[j].aa_matches # <<>>
                           /\ All(aa_matches_batch[j].aa_matches))

\* a whole match that only the suffix pass completed
C9_Witness ==
    /\ Matched /\ ret.value.pep_match
    /\ ~PrefixWith(cum_mass_threshold, ind_mass_threshold).pep_match

\* some token of the PTM list is no key of the mass table
BadPtmList == \E k \in DOMAIN ptm_list : ptm_list[k] \notin DOMAIN aa_dict

\* C10: if a token of the PTM list is no key of the mass table,
\* aa_match_batch raises before it draws, tokenizes, counts or aligns any
\* pair, whatever the batch holds.
C10_FailFast ==
    (call = "aa_match_batch" /\ BadPtmList /\ pc # "start")
        => /\ pc = "raised" /\ ret = Raised("ValueError")
           /\ n_pairs = 0 /\ aa_matches_batch = <<>>
           /\ n_aa1 = 0 /\ n_aa2 = 0 /\ n_ptm_1 = 0 /\ n_ptm_2 = 0
           /\ peptide1 = <<>> /\ peptide2 = <<>>

C10_Witness ==
    /\ call = "aa_match_batch" /\ BadPtmList
    /\ pc = "raised" /\ n_pairs = 0

\* the call of aa_match_metrics in the current state has ended
MetricsEnded == call = "aa_match_metrics" /\ pc # "start"

\* C11: aa_match_metrics fails with an error and returns no report whenever
\* the scores list and the verdict list differ in length; when the lengths
\* are equal the check of the lengths does not fail.
C11_ScoreShape ==
    MetricsEnded =>
        /\ Len(scores) # Len(aa_matches_batch)
               => (pc = "raised" /\ ret = Raised("AssertionError"))
        /\ Len(scores) = Len(aa_matches_batch)
               => ret # Raised("AssertionError")

\* both lists are long enough for a curve, and they differ in length
C11_Witness ==
    /\ call = "aa_match_metrics" /\ pc = "raised"
    /\ Len(scores) = 3 /\ Len(aa_matches_batch) = 2
    /\ ret = Raised("AssertionError")

\* tokens of a tokenized peptide
TokensOf(pep) == {pep[k] : k \in DOMAIN pep}

\* aa_dict with every token that is no key entered with mass 0
ZeroFilled(d) ==
    [t \in (DOMAIN d) \cup Tokens |-> IF t \in DOMAIN d THEN d[t] ELSE 0]

\* C12: when a tokenized peptide holds a token that is no key of the mass
\* table, aa_match completes with a verdict of max(len, len) entries, and
\* the verdict is the one obtained, in both passes, from the table in which
\* that token has mass 0.
C12_UnknownTokensMassZero ==
    (Matched /\ \E t \in TokensOf(peptide1) \cup TokensOf(peptide2) :
                    t \notin DOMAIN aa_dict)
        => /\ ret.kind = "value"
           /\ Len(ret.value.aa_matches) = Max(Len(peptide1), Len(peptide2))
           /\ ret.value = aa_match(peptide1, peptide2, ZeroFilled(aa_dict),
                                   ptm_list, cum_mass_threshold,
                                   ind_mass_threshold)

\* an unknown token on the truth side only, read by both passes: the suffix
\* pass adds matches to those of the prefix pass
C12_Witness ==
    /\ Matched
    /\ TokX \in TokensOf(peptide1) /\ TokX \notin TokensOf(peptide2)
    /\ ~PrefixWith(cum_mass_threshold, ind_mass_threshold).pep_match
    /\ Sum(ret.value.aa_matches)
           > Sum(PrefixWith(cum_mass_threshold, ind_mass_threshold).aa_matches)

\* the verdict of the tokenized pair (p1, p2): all false, as long as the
\* truth, for an empty prediction, else what aa_match returns
VerdictOfPair(p1, p2) ==
    IF p2 = <<>>
    THEN AllFalseVerdict(Len(p1))
    ELSE aa_match(p1, p2, aa_dict, ptm_list, cum_mass_threshold, ind_mass_threshold)

\* C13: aa_match_batch holds one verdict per pair drawn; each pair it
\* processes appends the verdict of that pair after the verdicts of the
\* pairs before it, adds the token counts of the truth and of the prediction
\* to the amino-acid totals and their numbers of PTM-list tokens to the PTM
\* totals; what it returns is that list and those four totals.
C13_TallyShape ==
    /\ []((call = "aa_match_batch" /\ pc \in {"loop", "done"})
             => Len(aa_matches_batch) = n_pairs)
    /\ []((call = "aa_match_batch" /\ pc = "done")
             => ret = Value(<<aa_matches_batch, n_aa1, n_aa2, n_ptm_1, n_ptm_2>>))
    /\ [][(call = "aa_match_batch" /\ pc = "loop" /\ pc' = "loop")
            => /\ aa_matches_batch'
                      = aa_matches_batch \o <<VerdictOfPair(peptide1', peptide2')>>
               /\ n_aa1' = n_aa1 + Len(peptide1')
               /\ n_aa2' = n_aa2 + Len(peptide2')
               /\ n_ptm_1' = n_ptm_1
                      + Cardinality({k \in DOMAIN peptide1' : In(peptide1'[k], ptm_list)})
               /\ n_ptm_2' = n_ptm_2
                      + Cardinality({k \in DOMAIN peptide2' : In(peptide2'[k], ptm_list)})]_vars
    /\ [][(call = "aa_match_batch" /\ pc = "loop" /\ pc' = "done")
            => UNCHANGED <<aa_matches_batch, n_aa1, n_aa2, n_ptm_1, n_ptm_2>>]_vars

\* a returned tally of two different verdicts with PTM tokens on both sides
C13_Witness ==
    /\ call = "aa_match_batch" /\ pc = "done"
    /\ Len(ret.value[1]) = 2
    /\ ret.value[1][1] # ret.value[1][2]
    /\ ret.value[2] # ret.value[3]
    /\ ret.value[4] > 0 /\ ret.value[5] > 0

\* the masses the running iteration looks up, and the two hypothetical
\* cumulative masses it compares
WalkMass1 == Get(aa_dict, peptide1[walk.i1 + 1])

WalkMass2 == Get(aa_dict, peptide2[walk.i2 + 1])

WalkHyp1 == walk.cum_mass1 + WalkMass1

WalkHyp2 == walk.cum_mass2 + WalkMass2

\* the hypothetical cumulative masses do not agree within cumTol
WalkDisagree == ~(Abs(mass_diff(WalkHyp1, WalkHyp2)) < cum_mass_threshold)

WalkArrays(s) == <<s.aa_matches, s.ptm_matches_1, s.ptm_matches_2>>

\* side 1 (side 2) alone advances, by its token's mass
Advance1 ==
    /\ walk'.i1 = walk.i1 + 1 /\ walk'.cum_mass1 = walk.cum_mass1 + WalkMass1
    /\ walk'.i2 = walk.i2 /\ walk'.cum_mass2 = walk.cum_mass2
    /\ WalkArrays(walk') = WalkArrays(walk)

Advance2 ==
    /\ walk'.i2 = walk.i2 + 1 /\ walk'.cum_mass2 = walk.cum_mass2 + WalkMass2
    /\ walk'.i1 = walk.i1 /\ walk'.cum_mass1 = walk.cum_mass1
    /\ WalkArrays(walk') = WalkArrays(walk)

\* C14 as stated: in an iteration of the forward pass where the hypothetical
\* cumulative masses do not agree within cumTol, exactly one side advances
\* by its token's mass, everything else is left as it is, and the side that
\* advances is behind the other (its cumulative mass, current or
\* hypothetical, is the smaller one).
C14_ResyncBehindSide ==
    [][(PrefixIter /\ WalkDisagree)
          => \/ /\ Advance1
                /\ (walk.cum_mass1 < walk.cum_mass2 \/ WalkHyp1 < WalkHyp2)
             \/ /\ Advance2
                /\ (walk.cum_mass2 < walk.cum_mass1 \/ WalkHyp2 < WalkHyp1)]_vars

\* C14 amended: in an iteration of the forward pass where the hypothetical
\* cumulative masses (current cumulative mass plus the next token's mass) do
\* not agree within cumTol, exactly one side advances by its token's mass
\* and everything else is left as it is: the truth side when its
\* hypothetical cumulative mass is smaller than the prediction's, and
\* otherwise the prediction side, also when the two are equal (cumTol = 0).
C14_ResyncHypothetical ==
    [][(PrefixIter /\ WalkDisagree)
          => IF WalkHyp2 > WalkHyp1 THEN Advance1 ELSE Advance2]_vars

\* the truth side has advanced twice on its own under a positive cumTol
C14_Witness ==
    /\ call = "aa_match" /\ pc = "prefix"
    /\ cum_mass_threshold > 0
    /\ walk.i1 = 2 /\ walk.i2 = 0 /\ walk.cum_mass1 = 1
    /\ n_iter = 2

\* the two peptides are equally long and differ at position p alone, where
\* the masses of their tokens differ by at least indTol
DifferOnlyAt(p) ==
    /\ Len(peptide1) = Len(peptide2)
    /\ p \in DOMAIN peptide1
    /\ \A k \in DOMAIN peptide1 : k # p => peptide1[k] = peptide2[k]
    /\ Abs(mass_diff(Get(aa_dict, peptide1[p]), Get(aa_dict, peptide2[p])))
           >= ind_mass_threshold

\* C15: for equally long peptides that differ at one position alone, by at
\* least indTol in mass, and thresholds > 0, the final match array of
\* aa_match is false at that position and true at every other one.
C15_TrailingRecovery ==
    (Matched /\ cum_mass_threshold > 0 /\ ind_mass_threshold > 0) =>
        \A p \in DOMAIN peptide1 :
            DifferOnlyAt(p)
                => ret.value.aa_matches = [k \in DOMAIN peptide1 |-> k # p]

\* a mismatch in the middle that throws the forward pass out of step; the
\* last position is matched by the suffix pass alone
C15_Witness ==
    /\ Matched /\ cum_mass_threshold > 0 /\ ind_mass_threshold > 0
    /\ Len(peptide1) = 3 /\ DifferOnlyAt(2)
    /\ ~PrefixWith(cum_mass_threshold, ind_mass_threshold).aa_matches[3]
    /\ ret.value.aa_matches = <<TRUE, FALSE, TRUE>>

\* what the forward pass returned for the inputs of the current call
ForwardVerdict == PrefixWith(cum_mass_threshold, ind_mass_threshold)

\* 0-based indices at which the arrays of two loop states differ
Written(s, t) ==
    {k - 1 : k \in {j \in DOMAIN s.aa_matches :
                        \/ s.aa_matches[j] # t.aa_matches[j]
                        \/ s.ptm_matches_1[j] # t.ptm_matches_1[j]
                        \/ s.ptm_matches_2[j] # t.ptm_matches_2[j]}}

\* C16: the backward pass runs with stopIndex the first index the forward
\* pass left unmatched; each of its iterations reads the two tokens at
\* indices (never negative) within [stopIndex, max(len, len) - 1] and writes
\* array entries within that range only, so that in the verdict returned
\* every entry of the three arrays below stopIndex is as the forward pass
\* left it.
C16_BackwardFrame ==
    /\ []((call = "aa_match" /\ pc = "suffix")
             => istop = FirstFalse(ForwardVerdict.aa_matches))
    /\ [][SuffixIter
            => LET last == Max(Len(peptide1), Len(peptide2)) - 1
               IN  /\ walk.i1 >= 0 /\ walk.i2 >= 0
                   /\ walk.i1 \in istop..last /\ walk.i2 \in istop..last
                   /\ Written(walk, walk') \subseteq istop..last
                   /\ Written(walk, walk') \subseteq {Max(walk.i1, walk.i2)}]_vars
    /\ []((Matched /\ ~ForwardVerdict.pep_match)
             => \A k \in 1..istop :
                    /\ ret.value.aa_matches[k] = ForwardVerdict.aa_matches[k]
                    /\ ret.value.ptm_matches_1[k] = ForwardVerdict.ptm_matches_1[k]
                    /\ ret.value.ptm_matches_2[k] = ForwardVerdict.ptm_matches_2[k])

\* a backward pass of several iterations that stopped above index 0 and
\* changed the arrays
C16_Witness ==
    /\ Matched /\ ~ForwardVerdict.pep_match
    /\ istop >= 1 /\ n_iter >= 2
    /\ walk.i1 >= 0 /\ walk.i2 >= 0
    /\ ret.value.aa_matches # ForwardVerdict.aa_matches

\* C17: every call of aa_match returns; each iteration of the forward pass
\* moves at least one pointer up, each iteration of the backward pass moves
\* at least one pointer down, and the forward pass takes at most
\* len(truth) + len(pred) iterations.
C17_Termination ==
    /\ <>(call = "aa_match" /\ pc = "done")
    /\ [][PrefixIter => /\ walk'.i1 >= walk.i1 /\ walk'.i2 >= walk.i2
                        /\ walk'.i1 + walk'.i2 > walk.i1 + walk.i2]_vars
    /\ [][SuffixIter => /\ walk'.i1 <= walk.i1 /\ walk'.i2 <= walk.i2
                        /\ walk'.i1 + walk'.i2 < walk.i1 + walk.i2]_vars
    /\ []((call = "aa_match" /\ pc = "prefix")
             => n_iter <= Len(peptide1) + Len(peptide2))

\* a call that returned after a backward pass of three iterations over
\* peptides with zero-mass tokens on both sides, under cumTol = 0
C17_Witness ==
    /\ Matched /\ ~ForwardVerdict.pep_match
    /\ TokX \in TokensOf(peptide1) /\ TokX \in TokensOf(peptide2)
    /\ cum_mass_threshold = 0
    /\ n_iter >= 3

\* C18: in every verdict returned by aa_match a truth-side or
\* prediction-side PTM flag is true at a position only if the amino-acid
\* match flag at that position is true.
C18_PtmFollowsAa ==
    Matched =>
        \A k \in DOMAIN ret.value.aa_matches :
            (ret.value.ptm_matches_1[k] \/ ret.value.ptm_matches_2[k])
                => ret.value.aa_matches[k]

\* C19: under thresholds 0 < indTol <= cumTol, aa_match returns whole-match
\* = true only for a truth and a prediction with the same number of tokens.
C19_WholeMatchEqualLength ==
    (Matched /\ 0 < ind_mass_threshold
        /\ ind_mass_threshold <= cum_mass_threshold
        /\ ret.value.pep_match)
        => Len(peptide1) = Len(peptide2)

\* the permutations of 1..n
Perms(n) == {f \in [1..n -> 1..n] : \A i, j \in 1..n : i # j => f[i] # f[j]}

\* list q rearranged by permutation f
Permuted(q, f) == [j \in DOMAIN q |-> q[f[j]]]

\* the whole-match flags of a tally ranked by descending score
RankedBools(batch, sc) == sorted_pred_bools(zip(sc, pep_match_bool_list(batch)))

\* aa_match_metrics returned a report for the tally and scores of the state
Reported == call = "aa_match_metrics" /\ pc = "done"

\* C20 as stated: applying one permutation to the verdict list and to the
\* scores list leaves the ranked sequence of whole-match flags unchanged,
\* also when several pairs have equal scores.
C20_RankingOrderIndependent ==
    Reported =>
        \A f \in Perms(Len(scores)) :
            RankedBools(Permuted(aa_matches_batch, f), Permuted(scores, f))
                = RankedBools(aa_matches_batch, scores)

\* pairs with equal scores have equal whole-match flags
TiesAgree ==
    \A i, j \in DOMAIN scores :
        scores[i] = scores[j]
            => aa_matches_batch[i].pep_match = aa_matches_batch[j].pep_match

\* C20 amended: when pairs with equal scores have equal whole-match flags
\* (as when all scores differ), applying one permutation to the verdict list
\* and to the scores list leaves the ranked sequence of whole-match flags,
\* and with it the report, unchanged; pairs with equal scores keep their
\* input order, so with a tie between a match and a mismatch the ranked
\* sequence follows the input order.
C20_RankingOrderIndependentTiesAgree ==
    (Reported /\ TiesAgree) =>
        \A f \in Perms(Len(scores)) :
            /\ RankedBools(Permuted(aa_matches_batch, f), Permuted(scores, f))
                   = RankedBools(aa_matches_batch, scores)
            /\ aa_match_metrics(Permuted(aa_matches_batch, f), n_aa1, n_aa2,
                                n_ptm_1, n_ptm_2, Permuted(scores, f)) = ret

\* three pairs given in ascending score order, two of them tied, with and
\* without a whole match
C20_Witness ==
    /\ Reported /\ TiesAgree
    /\ Len(scores) = 3
    /\ scores[1] < scores[2] /\ scores[2] = scores[3]
    /\ ~aa_matches_batch[1].pep_match /\ aa_matches_batch[2].pep_match
    /\ RankedBools(aa_matches_batch, scores) = <<TRUE, TRUE, FALSE>>

====
